---- MODULE Spec2Model ----
(***************************************************************************)
(* Model of src/src/rate_limiter.rs: a token bucket (TokenBucket) and a    *)
(* registry of named hard limits (HardLimits), each behind its own         *)
(* tokio Mutex, used by concurrent callers of RateLimiter.                 *)
(*                                                                         *)
(* Time is a counter of ticks, TicksPerSec ticks to the second.  Every     *)
(* region of code that runs under one lock guard is one atomic action;     *)
(* the awaits between two guards are the points where callers interleave.  *)
(* HibpClient::request of src/src/hibp.rs is the HTTP client next to it.   *)
(***************************************************************************)
EXTENDS Integers, Sequences, FiniteSets, TLC

\* ------------------------------------------------------------------ bounds
TicksPerSec == 2          \* resolution of the clock
MaxSteps == 4             \* calls started and clock steps, concurrent callers
MaxSeqSteps == 5          \* calls started and clock steps, one caller
Capacity == 2             \* largest capacity passed to RateLimiter::new
RefillRate == 1           \* refill_rate passed to RateLimiter::new
MaxPolls == 6             \* calls started and clock steps, drained bucket
MaxSleeps == 2            \* sleeps of one call that the clock runs through
Width == 4                \* bits of a u32 in SpecWide, scaled down from 32

Procs == {"t1", "t2"}                 \* concurrent tasks sharing the limiter
Names == {"daily", "hourly"}          \* keys passed to add_hard_limit
UsedPeriods == {"Minute"}             \* periods passed to add_hard_limit
OtherPeriods == {"Hour"}              \* periods passed by SpecAdmin as well
TokenCounts == {0, 1, 2}              \* tokens_needed passed by a caller
MaxCallsChoices == {1, 2}             \* max_calls passed to add_hard_limit

\* response statuses HibpClient::handle_response tells apart, and the values
\* of the Retry-After header of a response: a number of seconds, an HTTP-date
\* (in seconds of the clock), anything else
StatusCode == {"OK", "NOT_FOUND", "TOO_MANY_REQUESTS"}
RetryAfter == {[kind |-> "secs", v |-> 120], [kind |-> "date", v |-> 0],
               [kind |-> "other", v |-> 0]}

\* ------------------------------------------------------------ LimitPeriod
LimitPeriod == {"Minute", "Hour", "Day", "Month", "Year"}

\* LimitPeriod::duration, in ticks
duration(period) ==
    CASE period = "Minute" -> 60 * TicksPerSec
      [] period = "Hour"   -> 3600 * TicksPerSec
      [] period = "Day"    -> 86400 * TicksPerSec
      [] period = "Month"  -> 2629746 * TicksPerSec
      [] period = "Year"   -> 31556952 * TicksPerSec

\* the clock steps by one tick or by one minute
TimeSteps == {1, duration("Minute")}

VARIABLES
    now,          \* Instant::now(), in ticks
    inner,        \* the TokenBucket behind RateLimiter.inner
    hard_limits,  \* HardLimits.limits: name -> HardLimit
    task,         \* per task: the call it is in, and where in it
    last,         \* the call that returned last, and what it did
    granted,      \* tokens taken from the bucket since RateLimiter::new
    budget,       \* what is left of MaxSteps
    callers,      \* the tasks that issue calls
    requests      \* the responses HibpClient::request has received so far

vars == <<now, inner, hard_limits, task, last, granted, budget, callers, requests>>

\* --------------------------------------------------------------- HardLimit
\* HardLimit::new
HardLimitNew(max_calls, period, t) ==
    [max_calls |-> max_calls, current_calls |-> 0,
     period |-> period, period_start |-> t]

\* reset_if_needed without `self.period_start = now`
reset_if_needed_same_start(l, t) ==
    IF t - l.period_start >= duration(l.period)
    THEN [l EXCEPT !.current_calls = 0]
    ELSE l

\* reset_if_needed comparing with > where the code compares with >=
reset_if_needed_late(l, t) ==
    IF t - l.period_start > duration(l.period)
    THEN [l EXCEPT !.current_calls = 0, !.period_start = t]
    ELSE l

\* HardLimit::reset_if_needed
reset_if_needed(l, t) ==
    IF t - l.period_start >= duration(l.period)
    THEN [l EXCEPT !.current_calls = 0, !.period_start = t]
    ELSE l

\* the comparison of HardLimit::can_consume and HardLimit::consume
Permits(l, tokens) == l.current_calls + tokens <= l.max_calls

\* can_consume counting the tokens it permits, as consume does
can_consume_counting(l, tokens, t) ==
    LET r == reset_if_needed(l, t)
    IN  IF r.current_calls + tokens <= r.max_calls
        THEN [limit |-> [r EXCEPT !.current_calls = @ + tokens], ok |-> TRUE]
        ELSE [limit |-> r, ok |-> FALSE]

\* HardLimit::can_consume: the limit after the call, and the answer
can_consume(l, tokens, t) ==
    LET r == reset_if_needed(l, t)
    IN  [limit |-> r, ok |-> Permits(r, tokens)]

\* consume without its comparison: the counter grows whatever the maximum
consume_unchecked(l, tokens, t) ==
    LET r == reset_if_needed(l, t)
    IN  [limit |-> [r EXCEPT !.current_calls = @ + tokens], ok |-> TRUE]

\* consume counting one call whatever the number of tokens
consume_one(l, tokens, t) ==
    LET r == reset_if_needed(l, t)
    IN  IF r.current_calls + tokens <= r.max_calls
        THEN [limit |-> [r EXCEPT !.current_calls = @ + 1], ok |-> TRUE]
        ELSE [limit |-> r, ok |-> FALSE]

\* HardLimit::consume: the limit after the call, and Ok / Err
consume(l, tokens, t) ==
    LET r == reset_if_needed(l, t)
    IN  IF Permits(r, tokens)
        THEN [limit |-> [r EXCEPT !.current_calls = @ + tokens], ok |-> TRUE]
        ELSE [limit |-> r, ok |-> FALSE]

time_until_reset_elapsed(l, t) ==
    LET elapsed == t - l.period_start
    IN  IF elapsed >= duration(l.period) THEN duration(l.period) ELSE elapsed

\* HardLimit::time_until_reset (saturating_sub)
time_until_reset(l, t) ==
    LET elapsed == t - l.period_start
    IN  IF elapsed >= duration(l.period) THEN 0 ELSE duration(l.period) - elapsed

\* HardLimit::remaining_calls (saturating_sub)
remaining_calls(l) ==
    IF l.current_calls >= l.max_calls THEN 0 ELSE l.max_calls - l.current_calls

\* HardLimitStatus, as hard_limit_status fills it in
HardLimitStatus(l, t) ==
    [max_calls |-> l.max_calls, current_calls |-> l.current_calls,
     remaining_calls |-> remaining_calls(l), period |-> l.period,
     reset_in |-> time_until_reset(l, t)]

\* the fields of RateLimitError::HardLimitExceeded
NoError == [limit |-> 0, period |-> "none", current |-> 0, reset_in |-> 0]
HardLimitExceeded(l, t) ==
    [limit |-> l.max_calls, period |-> l.period,
     current |-> l.current_calls, reset_in |-> time_until_reset(l, t)]

\* ------------------------------------------------- iteration over the map
\* values_mut() visits the entries of the HashMap in an order the caller
\* does not control: every order of the keys.
RECURSIVE Orders(_)
Orders(S) ==
    IF S = {} THEN {<<>>}
    ELSE UNION {{<<x>> \o o : o \in Orders(S \ {x})} : x \in S}

\* the loop `for limit in values_mut() { if !limit.can_consume(n) { return Err } }`
\* from entry i of order on: the map afterwards, whether every limit
\* permitted, and the error of the first limit that did not
RECURSIVE CheckFrom(_, _, _, _, _)
CheckFrom(limits, order, i, tokens, t) ==
    IF i > Len(order)
    THEN [limits |-> limits, ok |-> TRUE, err |-> NoError, seen |-> i - 1]
    ELSE LET c == can_consume(limits[order[i]], tokens, t)
             after == [limits EXCEPT ![order[i]] = c.limit]
         IN  IF c.ok
             THEN CheckFrom(after, order, i + 1, tokens, t)
             ELSE [limits |-> after, ok |-> FALSE,
                   err |-> HardLimitExceeded(c.limit, t), seen |-> i]

\* the loop `for limit in values_mut() { limit.consume(n)?; }`: seen counts
\* the limits the loop reached, the last of them the one that refused
RECURSIVE CommitFrom(_, _, _, _, _)
CommitFrom(limits, order, i, tokens, t) ==
    IF i > Len(order)
    THEN [limits |-> limits, ok |-> TRUE, err |-> NoError, seen |-> i - 1]
    ELSE LET c == consume(limits[order[i]], tokens, t)
             after == [limits EXCEPT ![order[i]] = c.limit]
         IN  IF c.ok
             THEN CommitFrom(after, order, i + 1, tokens, t)
             ELSE [limits |-> after, ok |-> FALSE,
                   err |-> HardLimitExceeded(c.limit, t), seen |-> i]

\* the check loop stopping after the first limit it visits
CheckAll_first(limits, order, tokens, t) ==
    CheckFrom(limits, IF order = <<>> THEN order ELSE <<order[1]>>, 1, tokens, t)

\* the check loop calling consume where the code calls can_consume
CheckAll_committing(limits, order, tokens, t) ==
    CommitFrom(limits, order, 1, tokens, t)

CheckAll(limits, order, tokens, t) == CheckFrom(limits, order, 1, tokens, t)

CommitAll(limits, order, tokens, t) == CommitFrom(limits, order, 1, tokens, t)

\* ------------------------------------------------------------- TokenBucket
\* refill without `.min(self.capacity)`
refill_uncapped(b, t) ==
    LET elapsed == t - b.last_refill
        tokens_to_add == (elapsed * b.refill_rate) \div TicksPerSec
    IN  IF tokens_to_add > 0
        THEN [b EXCEPT !.tokens = b.tokens + tokens_to_add, !.last_refill = t]
        ELSE b

\* refill moving last_refill on every call, whole token credited or not
refill_always_stamping(b, t) ==
    LET elapsed == t - b.last_refill
        tokens_to_add == (elapsed * b.refill_rate) \div TicksPerSec
    IN  [b EXCEPT !.tokens = IF b.tokens + tokens_to_add < b.capacity
                              THEN b.tokens + tokens_to_add
                              ELSE b.capacity,
                  !.last_refill = t]

\* TokenBucket::refill
refill(b, t) ==
    LET elapsed == t - b.last_refill
        tokens_to_add == (elapsed * b.refill_rate) \div TicksPerSec
    IN  IF tokens_to_add > 0
        THEN [b EXCEPT !.tokens = IF b.tokens + tokens_to_add < b.capacity
                                  THEN b.tokens + tokens_to_add
                                  ELSE b.capacity,
                       !.last_refill = t]
        ELSE b

\* the bucket block comparing with > where the code compares with >=
TakeTokens_strict(b, tokens, t) ==
    LET r == refill(b, t)
    IN  IF r.tokens > tokens
        THEN [bucket |-> [r EXCEPT !.tokens = @ - tokens], taken |-> TRUE]
        ELSE [bucket |-> r, taken |-> FALSE]

\* the bucket block without its call of refill
TakeTokens_norefill(b, tokens, t) ==
    IF b.tokens >= tokens
    THEN [bucket |-> [b EXCEPT !.tokens = @ - tokens], taken |-> TRUE]
    ELSE [bucket |-> b, taken |-> FALSE]

\* the bucket block serving a request larger than the bucket from a full bucket
TakeTokens_capped(b, tokens, t) ==
    LET r == refill(b, t)
        need == IF tokens < r.capacity THEN tokens ELSE r.capacity
    IN  IF r.tokens >= need
        THEN [bucket |-> [r EXCEPT !.tokens = @ - need], taken |-> TRUE]
        ELSE [bucket |-> r, taken |-> FALSE]

\* the bucket block of acquire and try_acquire: refill, then take the tokens
\* if they are there
TakeTokens(b, tokens, t) ==
    LET r == refill(b, t)
    IN  IF r.tokens >= tokens
        THEN [bucket |-> [r EXCEPT !.tokens = @ - tokens], taken |-> TRUE]
        ELSE [bucket |-> r, taken |-> FALSE]

\* wait_time for one token, whatever the deficit
WaitTicks_one(b, tokens) ==
    (TicksPerSec + b.refill_rate - 1) \div b.refill_rate

\* wait_time of acquire: tokens_deficit / refill_rate seconds, in whole ticks
\* (a timer never fires early)
WaitTicks(b, tokens) ==
    LET tokens_deficit == tokens - b.tokens
        num == tokens_deficit * TicksPerSec
    IN  (num + b.refill_rate - 1) \div b.refill_rate

\* -------------------------------------------------------------------- tasks
Idle == [op |-> "none", pc |-> "idle", n |-> 0, deducted |-> 0,
         reset |-> {}, wake_at |-> 0, sleeps |-> 0]

Start(op, pc, n) == [Idle EXCEPT !.op = op, !.pc = pc, !.n = n]

\* a call that has returned: res is "ok" for Ok(()) and Ok(true), "false"
\* for Ok(false), "err" for Err(HardLimitExceeded); deducted is what it took
\* from the bucket, committed the limits whose current_calls it incremented,
\* reset the limits whose current_calls it set back to 0 from another value;
\* ret is the value of available_tokens and of hard_limit_status
NoCall == [op |-> "none", n |-> 0, res |-> "none", err |-> NoError,
           deducted |-> 0, committed |-> {}, reset |-> {}, sleeps |-> 0,
           ret |-> 0]

Returned(c, res, err, committed) ==
    [op |-> c.op, n |-> c.n, res |-> res, err |-> err,
     deducted |-> c.deducted, committed |-> committed, reset |-> c.reset,
     sleeps |-> c.sleeps, ret |-> 0]

\* the limits among the first `seen` of order that reset_if_needed sets back
\* to 0 at time t
ResetAt(limits, order, seen, t) ==
    {order[i] : i \in {j \in 1..seen :
        /\ t - limits[order[j]].period_start >= duration(limits[order[j]].period)
        /\ limits[order[j]].current_calls # 0}}

Value(op, ret) == [Returned(Start(op, "idle", 0), "ok", NoError, {}) EXCEPT !.ret = ret]

CanCall(p) ==
    /\ p \in callers
    /\ task[p].pc = "idle"
    /\ budget > 0

\* RateLimiter::new
NewLimiter(capacity, refill_rate) ==
    /\ now = 0
    /\ inner = [capacity |-> capacity, tokens |-> capacity,
                refill_rate |-> refill_rate, last_refill |-> 0]
    /\ hard_limits = <<>>
    /\ task = [p \in Procs |-> Idle]
    /\ last = NoCall
    /\ granted = 0
    /\ requests = {}

Init ==
    /\ NewLimiter(Capacity, RefillRate)
    /\ callers = Procs
    /\ budget = MaxSteps

\* time passes
Advance ==
    /\ budget > 0
    /\ \E d \in TimeSteps : now' = now + d
    /\ budget' = budget - 1
    /\ UNCHANGED <<inner, hard_limits, task, last, granted, callers, requests>>

\* add_hard_limit refilling the bucket on its way
add_hard_limit_refilling(p, name, max_calls, period) ==
    /\ CanCall(p)
    /\ budget' = budget - 1
    /\ hard_limits' =
         [k \in DOMAIN hard_limits \cup {name} |->
            IF k = name THEN HardLimitNew(max_calls, period, now)
            ELSE hard_limits[k]]
    /\ inner' = refill(inner, now)
    /\ last' = Value("add_hard_limit",
                     [name |-> name, max_calls |-> max_calls, period |-> period])
    /\ UNCHANGED <<now, task, granted, callers, requests>>

add_hard_limit_keeping(p, name, max_calls, period) ==
    /\ CanCall(p)
    /\ budget' = budget - 1
    /\ hard_limits' =
         [k \in DOMAIN hard_limits \cup {name} |->
            IF k # name THEN hard_limits[k]
            ELSE IF k \in DOMAIN hard_limits
            THEN [hard_limits[k] EXCEPT !.max_calls = max_calls, !.period = period]
            ELSE HardLimitNew(max_calls, period, now)]
    /\ last' = Value("add_hard_limit",
                     [name |-> name, max_calls |-> max_calls, period |-> period])
    /\ UNCHANGED <<now, inner, task, granted, callers, requests>>

\* RateLimiter::add_hard_limit
add_hard_limit(p, name, max_calls, period) ==
    /\ CanCall(p)
    /\ budget' = budget - 1
    /\ hard_limits' =
         [k \in DOMAIN hard_limits \cup {name} |->
            IF k = name THEN HardLimitNew(max_calls, period, now)
            ELSE hard_limits[k]]
    /\ last' = Value("add_hard_limit",
                     [name |-> name, max_calls |-> max_calls, period |-> period])
    /\ UNCHANGED <<now, inner, task, granted, callers, requests>>

remove_hard_limit_resetting(p, name) ==
    /\ CanCall(p)
    /\ budget' = budget - 1
    /\ hard_limits' =
         [k \in DOMAIN hard_limits |->
            IF k = name
            THEN HardLimitNew(hard_limits[k].max_calls, hard_limits[k].period, now)
            ELSE hard_limits[k]]
    /\ last' = Value("remove_hard_limit",
                     [name |-> name,
                      removed |-> {hard_limits[k] : k \in DOMAIN hard_limits \cap {name}}])
    /\ UNCHANGED <<now, inner, task, granted, callers, requests>>

\* RateLimiter::remove_hard_limit; `removed` is what HashMap::remove returns
\* and the code drops: the limit that was registered under name, if any
remove_hard_limit(p, name) ==
    /\ CanCall(p)
    /\ budget' = budget - 1
    /\ hard_limits' = [k \in DOMAIN hard_limits \ {name} |-> hard_limits[k]]
    /\ last' = Value("remove_hard_limit",
                     [name |-> name,
                      removed |-> {hard_limits[k] : k \in DOMAIN hard_limits \cap {name}}])
    /\ UNCHANGED <<now, inner, task, granted, callers, requests>>

\* a hard-limit check block run by task p in call c: return Err, or go on
\* to `next`
Check(p, c, next) ==
    \E order \in Orders(DOMAIN hard_limits) :
       LET r == CheckAll(hard_limits, order, c.n, now)
           d == [c EXCEPT !.reset = @ \cup ResetAt(hard_limits, order, r.seen, now)]
       IN  /\ hard_limits' = r.limits
           /\ IF r.ok
              THEN /\ task' = [task EXCEPT ![p] = [d EXCEPT !.pc = next]]
                   /\ UNCHANGED last
              ELSE /\ task' = [task EXCEPT ![p] = Idle]
                   /\ last' = Returned(d, "err", r.err, {})

ReturnAtOnce_rolling(p, op) ==
    /\ task' = [task EXCEPT ![p] = Idle]
    /\ last' = Value(op, 0)
    /\ hard_limits' = [k \in DOMAIN hard_limits |-> reset_if_needed(hard_limits[k], now)]

\* `if tokens_needed == 0 { return Ok(..) }`
ReturnAtOnce(p, op) ==
    /\ task' = [task EXCEPT ![p] = Idle]
    /\ last' = Value(op, 0)
    /\ UNCHANGED hard_limits

\* RateLimiter::acquire, lines 152-170: n = 0, or the fail-fast check
acquire_check(p, n) ==
    /\ CanCall(p)
    /\ budget' = budget - 1
    /\ IF n = 0
       THEN ReturnAtOnce(p, "acquire")
       ELSE Check(p, Start("acquire", "idle", n), "acq_bucket")
    /\ UNCHANGED <<now, inner, granted, callers, requests>>

\* the bucket block when a sleeping caller has kept its bucket guard over the
\* sleep: nobody else gets the bucket lock meanwhile
acquire_bucket_locked_out(p) ==
    /\ task[p].pc = "acq_bucket"
    /\ \A q \in Procs \ {p} : task[q].pc # "acq_sleep"
    /\ LET r == TakeTokens(inner, task[p].n, now)
       IN  /\ inner' = r.bucket
           /\ granted' = IF r.taken THEN granted + task[p].n ELSE granted
           /\ task' = IF r.taken
                      THEN [task EXCEPT ![p].pc = "acq_commit",
                                        ![p].deducted = task[p].n]
                      ELSE [task EXCEPT ![p].pc = "acq_sleep",
                                        ![p].sleeps = @ + 1,
                                        ![p].wake_at = now + WaitTicks(r.bucket, task[p].n)]
    /\ UNCHANGED <<now, hard_limits, last, budget, callers, requests>>

\* RateLimiter::acquire, lines 174-187: the bucket block of the loop
acquire_bucket(p) ==
    /\ task[p].pc = "acq_bucket"
    /\ LET r == TakeTokens(inner, task[p].n, now)
       IN  /\ inner' = r.bucket
           /\ granted' = IF r.taken THEN granted + task[p].n ELSE granted
           /\ task' = IF r.taken
                      THEN [task EXCEPT ![p].pc = "acq_commit",
                                        ![p].deducted = task[p].n]
                      ELSE IF r.bucket.refill_rate = 0
                      THEN \* deficit / 0.0 is infinite: Duration::from_secs_f64 panics
                           [task EXCEPT ![p].pc = "panicked"]
                      ELSE [task EXCEPT ![p].pc = "acq_sleep",
                                        ![p].sleeps = @ + 1,
                                        ![p].wake_at = now + WaitTicks(r.bucket, task[p].n)]
    /\ UNCHANGED <<now, hard_limits, last, budget, callers, requests>>

\* the wake going back to the bucket block without the re-check
acquire_wake_unchecked(p) ==
    /\ task[p].pc = "acq_sleep"
    /\ now >= task[p].wake_at
    /\ task' = [task EXCEPT ![p].pc = "acq_bucket"]
    /\ UNCHANGED <<now, inner, hard_limits, last, granted, budget, callers, requests>>

\* RateLimiter::acquire, lines 190-205: the sleep is over, the re-check
acquire_wake(p) ==
    /\ task[p].pc = "acq_sleep"
    /\ now >= task[p].wake_at
    /\ Check(p, task[p], "acq_bucket")
    /\ UNCHANGED <<now, inner, granted, budget, callers, requests>>

\* the commit block of acquire and try_acquire: `limit.consume(n)?` for
\* every limit, then Ok
Commit(p) ==
    \E order \in Orders(DOMAIN hard_limits) :
       LET r == CommitAll(hard_limits, order, task[p].n, now)
           done == {order[i] : i \in 1..(IF r.ok THEN r.seen ELSE r.seen - 1)}
           d == [task[p] EXCEPT !.reset = @ \cup ResetAt(hard_limits, order, r.seen, now)]
       IN  /\ hard_limits' = r.limits
           /\ task' = [task EXCEPT ![p] = Idle]
           /\ last' = Returned(d, IF r.ok THEN "ok" ELSE "err", r.err, done)

\* RateLimiter::acquire, lines 208-216
acquire_commit(p) ==
    /\ task[p].pc = "acq_commit"
    /\ Commit(p)
    /\ UNCHANGED <<now, inner, granted, budget, callers, requests>>

\* RateLimiter::try_acquire, lines 223-241
try_acquire_check(p, n) ==
    /\ CanCall(p)
    /\ budget' = budget - 1
    /\ IF n = 0
       THEN ReturnAtOnce(p, "try_acquire")
       ELSE Check(p, Start("try_acquire", "idle", n), "try_bucket")
    /\ UNCHANGED <<now, inner, granted, callers, requests>>

\* RateLimiter::try_acquire, lines 244-254 and, when the bucket is short, 264
try_acquire_bucket(p) ==
    /\ task[p].pc = "try_bucket"
    /\ LET r == TakeTokens(inner, task[p].n, now)
       IN  /\ inner' = r.bucket
           /\ granted' = IF r.taken THEN granted + task[p].n ELSE granted
           /\ IF r.taken
              THEN /\ task' = [task EXCEPT ![p].pc = "try_commit",
                                           ![p].deducted = task[p].n]
                   /\ UNCHANGED last
              ELSE /\ task' = [task EXCEPT ![p] = Idle]
                   /\ last' = Returned(task[p], "false", NoError, {})
    /\ UNCHANGED <<now, hard_limits, budget, callers, requests>>

\* RateLimiter::try_acquire, lines 256-264
try_acquire_commit(p) ==
    /\ task[p].pc = "try_commit"
    /\ Commit(p)
    /\ UNCHANGED <<now, inner, granted, budget, callers, requests>>

\* RateLimiter::available_tokens
available_tokens(p) ==
    /\ CanCall(p)
    /\ budget' = budget - 1
    /\ inner' = refill(inner, now)
    /\ last' = Value("available_tokens", inner'.tokens)
    /\ UNCHANGED <<now, hard_limits, task, granted, callers, requests>>

\* RateLimiter::hard_limit_status
hard_limit_status(p) ==
    /\ CanCall(p)
    /\ budget' = budget - 1
    /\ hard_limits' = [k \in DOMAIN hard_limits |-> reset_if_needed(hard_limits[k], now)]
    /\ last' = Value("hard_limit_status",
                     [k \in DOMAIN hard_limits |-> HardLimitStatus(hard_limits'[k], now)])
    /\ UNCHANGED <<now, inner, task, granted, callers, requests>>

Next ==
    \/ Advance
    \/ \E p \in Procs, name \in Names, m \in MaxCallsChoices, period \in UsedPeriods :
          add_hard_limit(p, name, m, period)
    \/ \E p \in Procs, name \in Names : remove_hard_limit(p, name)
    \/ \E p \in Procs, n \in TokenCounts : acquire_check(p, n)
    \/ \E p \in Procs : acquire_bucket(p)
    \/ \E p \in Procs : acquire_wake(p)
    \/ \E p \in Procs : acquire_commit(p)
    \/ \E p \in Procs, n \in TokenCounts : try_acquire_check(p, n)
    \/ \E p \in Procs : try_acquire_bucket(p)
    \/ \E p \in Procs : try_acquire_commit(p)
    \/ \E p \in Procs : available_tokens(p)
    \/ \E p \in Procs : hard_limit_status(p)

\* any number of tasks share the limiter
Spec == Init /\ [][Next]_vars

\* one task calls the limiter, each call after the one before has returned
InitSeq ==
    /\ \E capacity \in 1..Capacity : NewLimiter(capacity, RefillRate)
    /\ callers = {"t1"}
    /\ budget = MaxSeqSteps

SpecSeq == InitSeq /\ [][Next]_vars

\* one task, which registers limits of the other periods too
NextAdmin ==
    \/ Next
    \/ \E p \in Procs, name \in Names, m \in MaxCallsChoices,
           period \in OtherPeriods :
          add_hard_limit(p, name, m, period)

InitAdmin ==
    /\ NewLimiter(Capacity, RefillRate)
    /\ callers = {"t1"}
    /\ budget = MaxSteps

SpecAdmin == InitAdmin /\ [][NextAdmin]_vars

\* RateLimiter::new takes any two u32: every capacity and refill_rate from 0
InitConfig ==
    /\ \E capacity \in 0..Capacity, refill_rate \in 0..RefillRate :
          NewLimiter(capacity, refill_rate)
    /\ callers = {"t1"}
    /\ budget = MaxSeqSteps

SpecConfig == InitConfig /\ [][Next]_vars

\* The limiter as acquire(capacity), called right after RateLimiter::new,
\* leaves it: the bucket empty, last_refill at the time of construction.
InitDrained ==
    /\ \E capacity \in 1..Capacity :
          /\ now = 0
          /\ inner = [capacity |-> capacity, tokens |-> 0,
                      refill_rate |-> RefillRate, last_refill |-> 0]
          /\ granted = capacity
          /\ last = Returned([Start("acquire", "acq_commit", capacity)
                                 EXCEPT !.deducted = capacity],
                             "ok", NoError, {})
    /\ hard_limits = <<>>
    /\ task = [p \in Procs |-> Idle]
    /\ requests = {}
    /\ callers = {"t1"}
    /\ budget = MaxPolls

\* one task polls the bucket while time passes
NextRefill ==
    \/ Advance
    \/ \E p \in Procs : available_tokens(p)
    \/ \E p \in Procs, n \in TokenCounts : try_acquire_check(p, n)
    \/ \E p \in Procs : try_acquire_bucket(p)
    \/ \E p \in Procs : try_acquire_commit(p)

SpecRefill == InitDrained /\ [][NextRefill]_vars

\* `sleep(wait_time).await` (line 190): the clock runs on to the deadline of
\* the timer task p sleeps on
SleepPasses(p) ==
    /\ task[p].pc = "acq_sleep"
    /\ task[p].sleeps <= MaxSleeps
    /\ now < task[p].wake_at
    /\ now' = now + 1
    /\ UNCHANGED <<inner, hard_limits, task, last, granted, budget, callers, requests>>

NextWait ==
    \/ Next
    \/ \E p \in Procs : SleepPasses(p)

InitWait ==
    /\ \E capacity \in 1..Capacity : NewLimiter(capacity, RefillRate)
    /\ callers = {"t1"}
    /\ budget = MaxSteps

\* one task; the runtime fires the timer of a sleeping call and polls a call
\* that can go on
FairWait ==
    \A p \in Procs :
        /\ WF_vars(SleepPasses(p))
        /\ WF_vars(acquire_wake(p))
        /\ WF_vars(acquire_bucket(p))
        /\ WF_vars(acquire_commit(p))

SpecWait == InitWait /\ [][NextWait]_vars /\ FairWait

\* RateLimiter::time_until_available: the bucket is read as it was left
\* (`let bucket`, no refill); the wait is 0, or tokens_deficit / refill_rate
\* seconds, in ticks; with refill_rate = 0 the quotient is infinite and
\* Duration::from_secs_f64 panics
time_until_available(p, tokens_needed) ==
    /\ CanCall(p)
    /\ budget' = budget - 1
    /\ IF inner.tokens >= tokens_needed
       THEN /\ last' = Value("time_until_available",
                             [tokens_needed |-> tokens_needed, wait |-> 0])
            /\ UNCHANGED task
       ELSE IF inner.refill_rate = 0
       THEN /\ task' = [task EXCEPT ![p].pc = "panicked"]
            /\ UNCHANGED last
       ELSE /\ last' = Value("time_until_available",
                             [tokens_needed |-> tokens_needed,
                              wait |-> WaitTicks(inner, tokens_needed)])
            /\ UNCHANGED task
    /\ UNCHANGED <<now, inner, hard_limits, granted, callers, requests>>

NextEstimate ==
    \/ Next
    \/ \E p \in Procs, n \in TokenCounts : time_until_available(p, n)

\* one task that also asks for the estimate
SpecEstimate == InitAdmin /\ [][NextEstimate]_vars

\* u32::MAX at the scaled width
U32Max == 2^Width - 1

\* TokenBucket::refill with the width of its integers: `as u32` saturates at
\* u32::MAX; `self.tokens + tokens_to_add` is a u32 addition, which panics
\* when it overflows in a build with overflow checks and wraps around in a
\* build without.  The set of the outcomes.
refill_u32(b, t) ==
    LET elapsed == t - b.last_refill
        raw == (elapsed * b.refill_rate) \div TicksPerSec
        tokens_to_add == IF raw > U32Max THEN U32Max ELSE raw
        sum == b.tokens + tokens_to_add
        capped(x) == IF x < b.capacity THEN x ELSE b.capacity
    IN  IF tokens_to_add = 0
        THEN {[bucket |-> b, panicked |-> FALSE]}
        ELSE IF sum <= U32Max
        THEN {[bucket |-> [b EXCEPT !.tokens = capped(sum), !.last_refill = t],
               panicked |-> FALSE]}
        ELSE {[bucket |-> b, panicked |-> TRUE],
              [bucket |-> [b EXCEPT !.tokens = capped(sum % (U32Max + 1)),
                                    !.last_refill = t],
               panicked |-> FALSE]}

\* RateLimiter::available_tokens, the integers of refill at their width
available_tokens_u32(p) ==
    /\ CanCall(p)
    /\ budget' = budget - 1
    /\ \E o \in refill_u32(inner, now) :
          IF o.panicked
          THEN /\ task' = [task EXCEPT ![p].pc = "panicked"]
               /\ UNCHANGED <<inner, last>>
          ELSE /\ inner' = o.bucket
               /\ last' = Value("available_tokens", inner'.tokens)
               /\ UNCHANGED task
    /\ UNCHANGED <<now, hard_limits, granted, callers, requests>>

\* RateLimiter::new takes any two u32
InitWide ==
    /\ \E capacity \in 1..U32Max, refill_rate \in {1, U32Max} :
          NewLimiter(capacity, refill_rate)
    /\ callers = {"t1"}
    /\ budget = MaxSteps

NextWide ==
    \/ Advance
    \/ \E p \in Procs : available_tokens_u32(p)

SpecWide == InitWide /\ [][NextWide]_vars

\* The future of an acquire call is dropped at one of its .await points: the
\* lock().await of the bucket block (line 175), of the re-check (194) and of
\* the commit block (209), or the sleep (190).  What the call has done so far
\* stays done; nothing else of it runs.
cancel(p) ==
    /\ task[p].op = "acquire"
    /\ task[p].pc \in {"acq_bucket", "acq_sleep", "acq_commit"}
    /\ task' = [task EXCEPT ![p] = Idle]
    /\ last' = Returned(task[p], "cancelled", NoError, {})
    /\ UNCHANGED <<now, inner, hard_limits, granted, budget, callers, requests>>

\* HibpClient::request and handle_response: the request is sent, the status
\* of the response decides the result, 429 becomes Err(HibpError::RateLimit);
\* no header of the response is read and no RateLimiter is used.  The
\* result carries no duration to wait for (wait is empty): HibpError::RateLimit
\* is a unit variant.
request(p, status, retry_after) ==
    /\ CanCall(p)
    /\ budget' = budget - 1
    /\ last' = Value("request",
                     [result |-> CASE status = "OK" -> "Ok"
                                   [] status = "NOT_FOUND" -> "NotFound"
                                   [] status = "TOO_MANY_REQUESTS" -> "RateLimit",
                      wait |-> {}])
    /\ requests' = requests \cup
          {[at |-> now, status |-> status, retry_after |-> retry_after,
            asleep |-> {q \in Procs : task[q].pc = "acq_sleep"}]}
    /\ UNCHANGED <<now, inner, hard_limits, task, granted, callers>>

NextClient ==
    \/ Next
    \/ \E p \in Procs, status \in StatusCode, retry_after \in RetryAfter :
          request(p, status, retry_after)

\* the limiter and the HTTP client in one program
SpecClient == Init /\ [][NextClient]_vars

NextCancel ==
    \/ Next
    \/ \E p \in Procs : cancel(p)

\* callers that may abandon an acquire they are waiting in
SpecCancel == Init /\ [][NextCancel]_vars

\* ============================================================== properties
\* A limit's period has run out at the current time.
Elapsed(l) == now - l.period_start >= duration(l.period)

\* What a limit counts at the current time: nothing once its period has run
\* out, its current_calls before.
Counted(l) == IF Elapsed(l) THEN 0 ELSE l.current_calls

\* What the bucket holds at the current time, the elapsed time credited.
Refilled ==
    LET credit == ((now - inner.last_refill) * inner.refill_rate) \div TicksPerSec
    IN  IF inner.tokens + credit < inner.capacity
        THEN inner.tokens + credit ELSE inner.capacity

\* C1: in every reachable state, whatever the interleaving of the callers and
\* the passage of time, every registered hard limit has
\* current_calls <= max_calls.
C1_CallsWithinMax ==
    \A k \in DOMAIN hard_limits :
        hard_limits[k].current_calls <= hard_limits[k].max_calls

\* Two callers passed the check of the same limit, both took their tokens, and
\* the commit of the second was refused by the limit the first had filled.
C1_Witness ==
    /\ last.res = "err"
    /\ last.deducted > 0
    /\ \E k \in DOMAIN hard_limits :
          hard_limits[k].current_calls = hard_limits[k].max_calls

\* C2: in every reachable state the bucket has 0 <= tokens <= capacity.
C2_TokensWithinCapacity ==
    /\ 0 <= inner.tokens
    /\ inner.tokens <= inner.capacity

\* A refill that credits a minute's worth of tokens to a bucket that tokens
\* had been taken from leaves the bucket at capacity.
C2_Witness ==
    /\ granted > 0
    /\ inner.last_refill >= duration("Minute")
    /\ inner.tokens = inner.capacity

\* C3: a call that resolves with HardLimitExceeded has deducted no tokens
\* from the bucket (every call that deducts its tokens resolves with success).
C3_NoSilentTokenLoss ==
    (last.op \in {"acquire", "try_acquire"} /\ last.res = "err")
        => last.deducted = 0

\* Task p takes its tokens in this step.
Takes(p) ==
    /\ task[p].pc \in {"acq_bucket", "try_bucket"}
    /\ task'[p].pc \in {"acq_commit", "try_commit"}

\* Task p runs its commit block in this step, and returns.
Commits(p) ==
    /\ task[p].pc \in {"acq_commit", "try_commit"}
    /\ task'[p].pc = "idle"

\* hard_limit_status runs in this step.
ReportsStatus ==
    /\ budget' = budget - 1
    /\ now' = now
    /\ task' = task
    /\ last'.op = "hard_limit_status"

\* C4: a call acquire(n) or try_acquire(n), n > 0, that returns Ok(()) or
\* Ok(true) has taken exactly n tokens from the bucket (from what the bucket
\* held after its refill) and has added exactly n to the current_calls of
\* every limit registered when it committed (to what the limit counted at that
\* time, which is 0 once its period has run out); hard_limit_status reports
\* the counter it finds and max_calls less that counter as remaining.
C4_Step ==
    /\ \A p \in Procs :
        /\ Takes(p) => inner'.tokens = Refilled - task[p].n
        /\ (Commits(p) /\ last'.res = "ok") =>
              /\ task[p].n > 0
              /\ task[p].deducted = task[p].n
              /\ DOMAIN hard_limits' = DOMAIN hard_limits
              /\ \A k \in DOMAIN hard_limits :
                    hard_limits'[k].current_calls =
                        Counted(hard_limits[k]) + task[p].n
    /\ ReportsStatus =>
          /\ DOMAIN last'.ret = DOMAIN hard_limits
          /\ \A k \in DOMAIN hard_limits :
                /\ last'.ret[k].max_calls = hard_limits[k].max_calls
                /\ last'.ret[k].current_calls = Counted(hard_limits[k])
                /\ last'.ret[k].remaining_calls =
                       hard_limits[k].max_calls - Counted(hard_limits[k])

C4_SuccessTakesAndCountsN == [][C4_Step]_vars

\* acquire(2) has returned Ok(()) and the limit of 2 it committed to is full.
C4_Witness ==
    /\ last.op = "acquire"
    /\ last.res = "ok"
    /\ last.n = 2
    /\ \E k \in last.committed \cap DOMAIN hard_limits :
          hard_limits[k].current_calls = 2

\* C5: the bucket gates the commit: a step that adds to the current_calls of
\* a limit is the commit block of a call that has taken its tokens from the
\* bucket before.
C5_Step ==
    \A k \in DOMAIN hard_limits \cap DOMAIN hard_limits' :
        (/\ hard_limits'[k] # hard_limits[k]
         /\ hard_limits'[k].current_calls > Counted(hard_limits[k])) =>
            \E p \in Procs :
                /\ Commits(p)
                /\ task[p].n > 0
                /\ task[p].deducted = task[p].n
                /\ k \in last'.committed

C5_BucketGatesCommit == [][C5_Step]_vars

\* try_acquire has returned Ok(true): it took its tokens, then committed.
C5_Witness ==
    /\ last.op = "try_acquire"
    /\ last.res = "ok"
    /\ last.n > 0
    /\ last.deducted = last.n
    /\ last.committed # {}

\* Task p runs the bucket block of its call in this step.
AtBucket(p, pc) ==
    /\ task[p].pc = pc
    /\ task'[p] # task[p]

\* A call returns from its first block in this step, and last' tells which.
ReturnsAtOnce ==
    /\ budget' = budget - 1
    /\ now' = now
    /\ task' = task

\* A call of op passes its hard-limit check in this step, at its start or
\* after a sleep.
PassesCheck(p) ==
    /\ task[p].pc \in {"idle", "acq_sleep"}
    /\ task'[p].pc \in {"acq_bucket", "try_bucket"}

\* A hard-limit check refuses a call in this step, at its start or after a
\* sleep: the call returns HardLimitExceeded.
RejectsCheck ==
    /\ last'.res = "err"
    /\ \/ ReturnsAtOnce
       \/ \E p \in Procs : task[p].pc = "acq_sleep" /\ task'[p].pc = "idle"

\* C6: on a limiter without hard limits and with no time elapsed since its
\* construction, acquire(1) takes its token without suspending as long as
\* fewer than capacity tokens have been granted, so `capacity` calls in a row
\* succeed; once capacity tokens are granted try_acquire(1) returns Ok(false)
\* and acquire(1) suspends; acquire(capacity) on the fresh limiter succeeds and
\* available_tokens() is then 0.
C6_Step ==
    (now = 0 /\ DOMAIN hard_limits = {}) =>
        /\ \A p \in Procs :
            /\ (AtBucket(p, "acq_bucket") /\ task[p].n = 1) =>
                  IF granted < inner.capacity
                  THEN task'[p].pc = "acq_commit" /\ task'[p].sleeps = 0
                  ELSE task'[p].pc = "acq_sleep" /\ task'[p].wake_at > now
            /\ (AtBucket(p, "try_bucket") /\ task[p].n = 1) =>
                  IF granted < inner.capacity
                  THEN task'[p].pc = "try_commit"
                  ELSE task'[p].pc = "idle" /\ last'.res = "false"
            /\ (AtBucket(p, "acq_bucket") /\ task[p].n = inner.capacity
                    /\ granted = 0) =>
                  /\ task'[p].pc = "acq_commit"
                  /\ task'[p].sleeps = 0
                  /\ inner'.tokens = 0
            /\ Commits(p) => last'.res = "ok"
        /\ (ReturnsAtOnce /\ last'.op \in {"acquire", "try_acquire"}) =>
              last'.res = "ok"
        /\ (ReturnsAtOnce /\ last'.op = "available_tokens") =>
              last'.ret = inner.capacity - granted

C6_BurstUpToCapacity == [][C6_Step]_vars

\* The bucket of capacity 2 is used up at time 0, try_acquire(1) has returned
\* Ok(false) and the acquire(1) after it is suspended.
C6_Witness ==
    /\ now = 0
    /\ hard_limits = <<>>
    /\ inner.capacity = Capacity
    /\ granted = inner.capacity
    /\ last.op = "try_acquire"
    /\ last.res = "false"
    /\ task["t1"].pc = "acq_sleep"
    /\ task["t1"].n = 1

\* C7: one caller, a limit of max_calls = M: acquire(1) is refused at its
\* start exactly when some limit whose period has not run out holds
\* current_calls = max_calls, and the error reports current = M and max = M
\* (so M calls within a period pass and the next is refused); a limit whose
\* period has run out does not refuse, and the call that passes commits with
\* that limit reset: current_calls = 1 and period_start = now afterwards.
C7_Step ==
    /\ (ReturnsAtOnce /\ last'.op = "acquire" /\ last'.n = 1
            /\ last'.res = "err") =>
          /\ last'.err.current = last'.err.limit
          /\ \E k \in DOMAIN hard_limits :
                /\ ~Elapsed(hard_limits[k])
                /\ hard_limits[k].current_calls = hard_limits[k].max_calls
                /\ last'.err.limit = hard_limits[k].max_calls
    /\ \A p \in Procs :
        /\ (PassesCheck(p) /\ task'[p].op = "acquire" /\ task'[p].n = 1) =>
              \A k \in DOMAIN hard_limits :
                  /\ Elapsed(hard_limits[k])
                        \/ hard_limits[k].current_calls < hard_limits[k].max_calls
                  /\ Elapsed(hard_limits[k]) =>
                        /\ hard_limits'[k].current_calls = 0
                        /\ hard_limits'[k].period_start = now
        /\ (Commits(p) /\ task[p].op = "acquire" /\ task[p].n = 1) =>
              /\ last'.res = "ok"
              /\ \A k \in DOMAIN hard_limits :
                    IF Elapsed(hard_limits[k])
                    THEN /\ hard_limits'[k].current_calls = 1
                         /\ hard_limits'[k].period_start = now
                    ELSE /\ hard_limits'[k].current_calls =
                                hard_limits[k].current_calls + 1
                         /\ hard_limits'[k].period_start =
                                hard_limits[k].period_start

C7_LimitThenReset == [][C7_Step]_vars

\* A limit of 1 was full; its period has run out, and the acquire(1) that
\* returned Ok(()) last has reset it and counted itself.
C7_Witness ==
    /\ last.op = "acquire"
    /\ last.res = "ok"
    /\ last.n = 1
    /\ \E k \in last.reset \cap last.committed \cap DOMAIN hard_limits :
          /\ hard_limits[k].max_calls = 1
          /\ hard_limits[k].current_calls = 1
          /\ hard_limits[k].period_start >= duration("Minute")

\* C8: with several limits registered a hard-limit check of acquire(n) or
\* try_acquire(n) passes only if every registered limit permits n, and it
\* refuses with HardLimitExceeded, reporting a limit that n would exceed, as
\* soon as one limit has current_calls + n > max_calls.
C8_Step ==
    /\ \A p \in Procs :
          PassesCheck(p) =>
              \A k \in DOMAIN hard_limits :
                  Counted(hard_limits[k]) + task'[p].n <= hard_limits[k].max_calls
    /\ RejectsCheck =>
          \E k \in DOMAIN hard_limits :
              /\ Counted(hard_limits[k]) + last'.n > hard_limits[k].max_calls
              /\ last'.err.limit = hard_limits[k].max_calls
              /\ last'.err.current = Counted(hard_limits[k])

C8_EveryLimitMustPermit == [][C8_Step]_vars

\* Two limits are registered; the call refused last fits one of them and
\* not the other.
C8_Witness ==
    /\ Cardinality(DOMAIN hard_limits) = 2
    /\ last.res = "err"
    /\ last.deducted = 0
    /\ \E k \in DOMAIN hard_limits :
          hard_limits[k].current_calls + last.n <= hard_limits[k].max_calls
    /\ \E k \in DOMAIN hard_limits :
          hard_limits[k].current_calls + last.n > hard_limits[k].max_calls

\* try_acquire(n), n > 0: the check passes only if every limit permits n and
\* refuses with Err otherwise, whatever the bucket holds; after the check the
\* call returns Ok(false) exactly when the refilled bucket holds fewer than n
\* tokens, and then it takes no tokens and commits to no limit.
C9_Exact ==
    /\ \A p \in Procs :
        /\ (PassesCheck(p) /\ task'[p].op = "try_acquire") =>
              \A k \in DOMAIN hard_limits :
                  Counted(hard_limits[k]) + task'[p].n <= hard_limits[k].max_calls
        /\ AtBucket(p, "try_bucket") =>
              /\ (task'[p].pc = "idle" /\ last'.res = "false")
                    <=> Refilled < task[p].n
              /\ task'[p].pc = "idle" =>
                    /\ inner'.tokens = Refilled
                    /\ hard_limits' = hard_limits
                    /\ last'.deducted = 0
                    /\ last'.committed = {}
    /\ (ReturnsAtOnce /\ last'.op = "try_acquire" /\ last'.n > 0) =>
          last'.res = "err"

\* try_acquire returns Ok(false) in this step.
ReturnsFalse ==
    \E p \in Procs :
        /\ AtBucket(p, "try_bucket")
        /\ task'[p].pc = "idle"
        /\ last'.res = "false"

\* C9 as stated: ... and a call that returns Ok(false) has changed the
\* current_calls of no limit.
C9_FalseChangesNoCounter ==
    [][C9_Exact /\ (ReturnsFalse => last'.reset = {})]_vars

\* C9, amended: ... and a call that returns Ok(false) has added to the
\* current_calls of no limit: its check changes a limit only by resetting
\* one whose period has run out (current_calls = 0, period_start = now).
C9_Amended_Step ==
    /\ C9_Exact
    /\ \A p \in Procs :
          (PassesCheck(p) /\ task'[p].op = "try_acquire") =>
              /\ DOMAIN hard_limits' = DOMAIN hard_limits
              /\ \A k \in DOMAIN hard_limits :
                    IF Elapsed(hard_limits[k])
                    THEN hard_limits'[k] =
                            [hard_limits[k] EXCEPT !.current_calls = 0,
                                                   !.period_start = now]
                    ELSE hard_limits'[k] = hard_limits[k]

C9_FalseCountsNothing == [][C9_Amended_Step]_vars

\* try_acquire has returned Ok(false) after its check reset a limit whose
\* period had run out.
C9_Witness ==
    /\ last.op = "try_acquire"
    /\ last.res = "false"
    /\ last.reset # {}
    /\ last.deducted = 0

\* C10 as stated: a hard-limit check that refuses a request leaves the
\* current_calls of every registered limit unchanged.
C10_RejectChangesNoCounter ==
    [][RejectsCheck =>
          \A k \in DOMAIN hard_limits :
              hard_limits'[k].current_calls = hard_limits[k].current_calls]_vars

\* C10, amended: a hard-limit check that refuses a request adds to the
\* current_calls of no limit, for every n > 0: it leaves a limit as it was,
\* or, when the limit's period has run out, reset (current_calls = 0,
\* period_start = now).
C10_Amended_Step ==
    RejectsCheck =>
        /\ DOMAIN hard_limits' = DOMAIN hard_limits
        /\ \A k \in DOMAIN hard_limits :
              \/ hard_limits'[k] = hard_limits[k]
              \/ /\ Elapsed(hard_limits[k])
                 /\ hard_limits'[k] =
                        [hard_limits[k] EXCEPT !.current_calls = 0,
                                               !.period_start = now]

C10_RejectCountsNothing == [][C10_Amended_Step]_vars

\* A request for more tokens than a limit's max_calls was refused by a check
\* that reset a limit whose period had run out.
C10_Witness ==
    /\ last.res = "err"
    /\ last.deducted = 0
    /\ last.reset # {}
    /\ \E k \in DOMAIN hard_limits : last.n > hard_limits[k].max_calls

\* C11: acquire(0) and try_acquire(0) return success in the step they are
\* called in, without suspending: no call in progress has n = 0, and the
\* call leaves the bucket (tokens, last_refill) and every hard limit
\* (current_calls, period_start) as they were, whatever the bucket holds and
\* whatever the limits count.
C11_Step ==
    /\ \A p \in Procs : task'[p].pc # "idle" => task'[p].n > 0
    /\ (ReturnsAtOnce /\ last'.op \in {"acquire", "try_acquire"}
            /\ last'.n = 0) =>
          /\ last'.res = "ok"
          /\ last'.sleeps = 0
          /\ last'.deducted = 0
          /\ last'.committed = {}
          /\ inner' = inner
          /\ hard_limits' = hard_limits
          /\ granted' = granted

C11_ZeroIsNoOp == [][C11_Step]_vars

\* try_acquire(0) has returned Ok(true) on an empty bucket and with a limit
\* that is used up and whose period has run out.
C11_Witness ==
    /\ last.op = "try_acquire"
    /\ last.n = 0
    /\ last.res = "ok"
    /\ inner.tokens = 0
    /\ \E k \in DOMAIN hard_limits :
          /\ hard_limits[k].current_calls = hard_limits[k].max_calls
          /\ Elapsed(hard_limits[k])

\* C12: an acquire(n) that is dropped while it is suspended, before it
\* resolves, has taken no tokens from the bucket and has added to the
\* current_calls of no limit.
C12_CancelLeavesNoTrace ==
    last.res = "cancelled" =>
        /\ last.deducted = 0
        /\ last.committed = {}

\* What the retry hint of a response asks for, in ticks, at time t: the
\* number of seconds, the time left until the date (none once it is past),
\* 30 seconds for anything else.
RetryAfterTicks(h, t) ==
    CASE h.kind = "secs" -> h.v * TicksPerSec
      [] h.kind = "date" -> IF h.v * TicksPerSec > t THEN h.v * TicksPerSec - t ELSE 0
      [] h.kind = "other" -> 30 * TicksPerSec

\* The rate-limited responses received so far: each is the point at which
\* backoff_for(d) is due, d being what its retry hint asks for.
Backoffs == {r \in requests : r.status = "TOO_MANY_REQUESTS"}

BackoffDeadline(r) == r.at + RetryAfterTicks(r.retry_after, r.at)

\* C13: from the moment backoff_for(d) is due, available_tokens() returns 0
\* at once and every try_acquire(1) returns Ok(false) until d has elapsed,
\* whatever the bucket has refilled in between.
C13_Step ==
    /\ (ReturnsAtOnce /\ last'.op = "available_tokens"
            /\ \E r \in Backoffs : r.at = now) =>
          last'.ret = 0
    /\ \A p \in Procs :
          (/\ AtBucket(p, "try_bucket")
           /\ task[p].n = 1
           /\ \E r \in Backoffs : now < BackoffDeadline(r)) =>
              /\ task'[p].pc = "idle"
              /\ last'.res = "false"

C13_BackoffEmptiesBucket == [][C13_Step]_vars

\* C14: with two backoff_for calls due, in whatever order and from whatever
\* callers, the deadline in force is the later of their two deadlines: no
\* caller is granted tokens before it.
C14_Step ==
    \A r1, r2 \in Backoffs :
        (r1 # r2 /\ BackoffDeadline(r1) <= BackoffDeadline(r2)) =>
            \A p \in Procs : Takes(p) => now >= BackoffDeadline(r2)

C14_LaterDeadlineWins == [][C14_Step]_vars

\* C15: a caller that was suspended in acquire when backoff_for became due
\* takes no tokens before the deadline of that backoff.
C15_Step ==
    \A r \in Backoffs : \A p \in r.asleep :
        (Takes(p) /\ task[p].op = "acquire" /\ task[p].sleeps > 0) =>
            now >= BackoffDeadline(r)

C15_WaitersHonourBackoff == [][C15_Step]_vars

\* C16: the retry hint of a rate-limited response always yields a duration:
\* the seconds it names, the time left until its date (0 for a past date),
\* and 30 s for any other value.
C16_RetryAfterYieldsDuration ==
    (last.op = "request" /\ last.ret.result = "RateLimit") =>
        \E r \in Backoffs :
            /\ r.at = now
            /\ last.ret.wait = {RetryAfterTicks(r.retry_after, r.at)}

\* C17: no limiter exists with capacity = 0 or refill_rate = 0:
\* RateLimiter::new rejects both.
C17_NoDegenerateLimiter ==
    /\ inner.capacity > 0
    /\ inner.refill_rate > 0

\* C18: add_hard_limit(name, max, period) leaves one limit under name, with
\* max_calls = max, the period given, current_calls = 0 and
\* period_start = now, whatever was registered and counted under name before;
\* the limits under the other names are as they were.
C18_Step ==
    (ReturnsAtOnce /\ last'.op = "add_hard_limit") =>
        /\ DOMAIN hard_limits' = DOMAIN hard_limits \cup {last'.ret.name}
        /\ hard_limits'[last'.ret.name].max_calls = last'.ret.max_calls
        /\ hard_limits'[last'.ret.name].period = last'.ret.period
        /\ hard_limits'[last'.ret.name].current_calls = 0
        /\ hard_limits'[last'.ret.name].period_start = now
        /\ \A k \in DOMAIN hard_limits \ {last'.ret.name} :
              hard_limits'[k] = hard_limits[k]

C18_AddIsUpsert == [][C18_Step]_vars

\* add_hard_limit has registered a limit of period Hour, after time has
\* passed and tokens were granted, next to a limit of another name that has
\* counted calls and keeps its count.
C18_Witness ==
    /\ last.op = "add_hard_limit"
    /\ granted > 0
    /\ now > 0
    /\ last.ret.period = "Hour"
    /\ hard_limits[last.ret.name].current_calls = 0
    /\ hard_limits[last.ret.name].period_start = now
    /\ \E k \in DOMAIN hard_limits \ {last.ret.name} :
          hard_limits[k].current_calls > 0

\* C19: remove_hard_limit(name) drops the limit under name and nothing else
\* (nothing at all when name is not registered); from then on, until a limit
\* is added under name again, name is not registered, so a call that is
\* refused is refused by a limit that is registered and does not permit it,
\* and a call that commits counts against the registered limits only.
C19_Step ==
    /\ (ReturnsAtOnce /\ last'.op = "remove_hard_limit") =>
          /\ hard_limits' =
                [k \in DOMAIN hard_limits \ {last'.ret.name} |-> hard_limits[k]]
          /\ last'.ret.name \notin DOMAIN hard_limits => hard_limits' = hard_limits
          /\ inner' = inner
    /\ last.op = "remove_hard_limit" =>
          /\ last.ret.name \notin DOMAIN hard_limits
          /\ RejectsCheck =>
                \E k \in DOMAIN hard_limits \ {last.ret.name} :
                    Counted(hard_limits[k]) + last'.n > hard_limits[k].max_calls
          /\ \A p \in Procs :
                /\ PassesCheck(p) => DOMAIN hard_limits' = DOMAIN hard_limits
                /\ Commits(p) =>
                      /\ DOMAIN hard_limits' = DOMAIN hard_limits
                      /\ last'.committed \subseteq DOMAIN hard_limits \ {last.ret.name}

C19_RemovedLimitIsGone == [][C19_Step]_vars

\* The one caller removed a limit that was used up and within its period,
\* then called acquire: the call passed its check, took its tokens, and no
\* limit is registered.
C19_Witness ==
    /\ last.op = "remove_hard_limit"
    /\ \E l \in last.ret.removed :
          /\ l.current_calls = l.max_calls
          /\ now - l.period_start < duration(l.period)
    /\ hard_limits = <<>>
    /\ task["t1"].op = "acquire"
    /\ task["t1"].pc = "acq_commit"

\* C20: hard_limit_status() reports every registered limit, and for each its
\* max_calls, its current_calls, remaining_calls = max_calls - current_calls,
\* its period, and reset_in = the period's duration less the time elapsed
\* since its period_start, not below 0 and not above the duration; the
\* fields are those the limit has when the call returns.
C20_Step ==
    ReportsStatus =>
        /\ DOMAIN last'.ret = DOMAIN hard_limits
        /\ DOMAIN hard_limits' = DOMAIN hard_limits
        /\ \A k \in DOMAIN hard_limits :
              LET l == hard_limits'[k]
                  s == last'.ret[k]
                  left == duration(l.period) - (now - l.period_start)
              IN  /\ s.max_calls = l.max_calls
                  /\ s.current_calls = l.current_calls
                  /\ s.remaining_calls = l.max_calls - l.current_calls
                  /\ s.period = l.period
                  /\ s.reset_in = IF left < 0 THEN 0 ELSE left
                  /\ 0 <= s.reset_in
                  /\ s.reset_in <= duration(l.period)

C20_StatusReportsLimits == [][C20_Step]_vars

\* hard_limit_status has reported a limit of the period Hour that has counted
\* a call and is one tick or more into its period.
C20_Witness ==
    /\ last.op = "hard_limit_status"
    /\ \E k \in DOMAIN last.ret :
          /\ last.ret[k].period = "Hour"
          /\ last.ret[k].current_calls > 0
          /\ last.ret[k].remaining_calls > 0
          /\ last.ret[k].reset_in < duration("Hour")

\* A call is refused on a hard limit in this step: by a check, or by the
\* commit block.
FailsOnLimit ==
    \/ RejectsCheck
    \/ \E p \in Procs : Commits(p) /\ last'.res = "err"

\* C21: the HardLimitExceeded error of a call that fails on a hard limit
\* carries the name of the limit that was violated, and that limit's period,
\* max_calls, current_calls and time to its reset as the failing check found
\* them.
C21_Step ==
    FailsOnLimit =>
        \E k \in DOMAIN hard_limits' :
            /\ "name" \in DOMAIN last'.err
            /\ last'.err.name = k
            /\ last'.err.period = hard_limits'[k].period
            /\ last'.err.limit = hard_limits'[k].max_calls
            /\ last'.err.current = hard_limits'[k].current_calls
            /\ last'.err.reset_in = time_until_reset(hard_limits'[k], now)

C21_ErrorNamesLimit == [][C21_Step]_vars

\* TokenBucket::refill runs in this step: in available_tokens, or in the
\* bucket block of a call.
Refills ==
    \/ ReturnsAtOnce /\ last'.op = "available_tokens"
    \/ \E p \in Procs : AtBucket(p, "acq_bucket") \/ AtBucket(p, "try_bucket")

\* C22: a bucket that was emptied at time 0 and that no tokens were taken
\* from since: once capacity / refill_rate seconds have passed,
\* available_tokens() returns capacity, whatever calls of available_tokens
\* and try_acquire refilled the bucket in between.
C22_Step ==
    (/\ ReturnsAtOnce
     /\ last'.op = "available_tokens"
     /\ granted = inner.capacity
     /\ now * inner.refill_rate >= inner.capacity * TicksPerSec) =>
        last'.ret = inner.capacity

C22_FullAfterCapacityOverRate == [][C22_Step]_vars

\* C27: a bucket that was emptied at time 0 and that no tokens were taken
\* from since: after every refill, however many refills the time since 0 was
\* split into, the tokens credited are floor(refill_rate * time elapsed)
\* (up to capacity), and what is left to credit is less than one token.
C27_Step ==
    (Refills /\ granted' = inner.capacity) =>
        LET whole == (now * inner.refill_rate) \div TicksPerSec
        IN  /\ inner'.tokens = IF whole < inner.capacity THEN whole
                               ELSE inner.capacity
            /\ (now - inner'.last_refill) * inner.refill_rate < TicksPerSec

C27_RefillKeepsRemainder == [][C27_Step]_vars

\* Task p is inside acquire(n), past its first check, with n <= capacity.
Blocking(p) ==
    /\ task[p].op = "acquire"
    /\ task[p].pc \in {"acq_bucket", "acq_sleep", "acq_commit"}
    /\ task[p].n <= inner.capacity

\* C23: with one caller (no competing consumer), refill_rate > 0 and
\* 0 < n <= capacity, an acquire(n) that has passed its check sleeps at most
\* once: the bucket block after the sleep finds n tokens; the re-check and
\* the commit do not refuse it, and the call returns Ok(()) in the end.
C23_Step ==
    \A p \in Procs :
        Blocking(p) =>
            /\ task[p].sleeps <= 1
            /\ (AtBucket(p, "acq_bucket") /\ task[p].sleeps = 1) =>
                  /\ Refilled >= task[p].n
                  /\ task'[p].pc = "acq_commit"
            /\ task'[p].pc = "idle" =>
                  /\ last'.op = "acquire"
                  /\ last'.res = "ok"
                  /\ last'.sleeps <= 1

C23_BlockingAcquireReturns ==
    /\ [][C23_Step]_vars
    /\ \A p \in Procs : Blocking(p) ~> (task[p].pc = "idle")

\* acquire(2) has returned Ok(()) after sleeping once, on a bucket of
\* capacity 2.
C23_Witness ==
    /\ last.op = "acquire"
    /\ last.res = "ok"
    /\ last.n = 2
    /\ last.sleeps = 1
    /\ inner.capacity = 2

\* C24: the HTTP client sends no request without a successful acquire(1)
\* before it, so the requests sent never outnumber the tokens granted; and a
\* request answered 429 returns only after the retry hint of the response
\* was taken as the time to back off for.
C24_RequestsFollowAcquire ==
    /\ Cardinality(requests) <= granted
    /\ (last.op = "request" /\ last.ret.result = "RateLimit") =>
          last.ret.wait # {}

\* C25: the commit of a call is all or nothing: the commit block of
\* acquire(n) or try_acquire(n) either adds n to the current_calls of every
\* registered limit and the call succeeds, or adds to none of them and the
\* call fails; a call that resolves with HardLimitExceeded has added to no
\* limit.
C25_Step ==
    /\ \A p \in Procs :
          Commits(p) =>
              /\ DOMAIN hard_limits' = DOMAIN hard_limits
              /\ IF last'.res = "ok"
                 THEN /\ last'.committed = DOMAIN hard_limits
                      /\ \A k \in DOMAIN hard_limits :
                            hard_limits'[k].current_calls =
                                Counted(hard_limits[k]) + task[p].n
                 ELSE /\ last'.committed = {}
                      /\ \A k \in DOMAIN hard_limits :
                            hard_limits'[k].current_calls = Counted(hard_limits[k])
    /\ RejectsCheck => last'.committed = {}

C25_CommitAllOrNothing == [][C25_Step]_vars

\* C26: an acquire(n) that wakes from its sleep checks every hard limit again
\* before it goes back to the bucket: the step that ends a sleep takes no
\* tokens; it returns HardLimitExceeded, with nothing deducted, when a limit
\* within its period does not permit n (others have used it up meanwhile),
\* and it goes on to the bucket block when every limit permits n, a limit
\* whose period ran out during the sleep counting as empty and being reset.
C26_Step ==
    \A p \in Procs :
        (task[p].pc = "acq_sleep" /\ task'[p] # task[p]) =>
            /\ now >= task[p].wake_at
            /\ inner' = inner
            /\ granted' = granted
            /\ IF \A k \in DOMAIN hard_limits :
                     Counted(hard_limits[k]) + task[p].n <= hard_limits[k].max_calls
               THEN /\ task'[p].pc = "acq_bucket"
                    /\ task'[p].deducted = 0
                    /\ \A k \in DOMAIN hard_limits :
                          Elapsed(hard_limits[k]) =>
                              /\ hard_limits'[k].current_calls = 0
                              /\ hard_limits'[k].period_start = now
               ELSE /\ task'[p].pc = "idle"
                    /\ last'.op = "acquire"
                    /\ last'.res = "err"
                    /\ last'.deducted = 0
                    /\ last'.committed = {}

C26_WakeRevalidates == [][C26_Step]_vars

\* An acquire has slept and was refused on waking: a limit within its period
\* was used up while it slept; it took no tokens.
C26_Witness ==
    /\ last.op = "acquire"
    /\ last.res = "err"
    /\ last.sleeps > 0
    /\ last.deducted = 0
    /\ \E k \in DOMAIN hard_limits :
          /\ ~Elapsed(hard_limits[k])
          /\ hard_limits[k].current_calls + last.n > hard_limits[k].max_calls

\* A step that accesses the hard limits: a check, a commit, or
\* hard_limit_status.
Accesses ==
    \/ ReportsStatus
    \/ RejectsCheck
    \/ \E p \in Procs : PassesCheck(p) \/ Commits(p)

\* add_hard_limit registers a limit under k in this step.
Adds(k) ==
    /\ ReturnsAtOnce
    /\ last'.op = "add_hard_limit"
    /\ last'.ret.name = k

\* limit l rolled over at the current time
Rolled(l) == [l EXCEPT !.current_calls = 0, !.period_start = now]

\* C28: a hard limit rolls over lazily.  A limit that stays registered keeps
\* its period_start, and its current_calls is not set back, unless an access
\* (check, commit, status) finds now - period_start >= the period's duration:
\* then current_calls is reset to 0 and period_start set to now before the
\* access counts or reports.  Every limit a passing check, a commit that
\* succeeds or hard_limit_status meets in that condition is rolled over; a
\* step that is no access rolls nothing over.
C28_Step ==
    \A k \in DOMAIN hard_limits \cap DOMAIN hard_limits' :
        LET l == hard_limits[k]
            m == hard_limits'[k]
        IN  \/ Adds(k)
            \/ /\ ~Accesses => m = l
               /\ ~Elapsed(l) =>
                     /\ m.period_start = l.period_start
                     /\ m.current_calls >= l.current_calls
               /\ m.period_start # l.period_start =>
                     /\ Elapsed(l)
                     /\ Accesses
                     /\ m.period_start = now
                     /\ m.current_calls \in {0} \cup {task[p].n : p \in Procs}
               /\ (ReportsStatus /\ Elapsed(l)) =>
                     /\ m = Rolled(l)
                     /\ last'.ret[k].current_calls = 0
               /\ \A p \in Procs :
                     /\ (PassesCheck(p) /\ Elapsed(l)) => m = Rolled(l)
                     /\ (Commits(p) /\ last'.res = "ok" /\ Elapsed(l)) =>
                           m = [Rolled(l) EXCEPT !.current_calls = task[p].n]

C28_LazyRollover == [][C28_Step]_vars

\* try_acquire has returned Ok(true) a minute or more after construction: its
\* access rolled over a limit that had counted calls, which now counts this
\* call from period_start = now.
C28_Witness ==
    /\ last.op = "try_acquire"
    /\ last.res = "ok"
    /\ now >= duration("Minute")
    /\ \E k \in last.reset \cap last.committed \cap DOMAIN hard_limits :
          /\ hard_limits[k].period_start = now
          /\ hard_limits[k].current_calls = last.n

\* C29: add_hard_limit and remove_hard_limit leave the token bucket as it
\* is: tokens, capacity, refill_rate and last_refill are the same after the
\* call as before, also when a refill is due, and no tokens are granted.
C29_Step ==
    (ReturnsAtOnce /\ last'.op \in {"add_hard_limit", "remove_hard_limit"}) =>
        /\ inner'.tokens = inner.tokens
        /\ inner'.capacity = inner.capacity
        /\ inner'.refill_rate = inner.refill_rate
        /\ inner'.last_refill = inner.last_refill
        /\ granted' = granted

C29_LimitsLeaveBucket == [][C29_Step]_vars

\* remove_hard_limit has removed a limit while the bucket was short of
\* tokens and a refill was due: the bucket still holds what it held.
C29_Witness ==
    /\ last.op = "remove_hard_limit"
    /\ last.ret.removed # {}
    /\ inner.tokens < inner.capacity
    /\ Refilled > inner.tokens

\* What limit l answers to a call of n tokens made d2 ticks after a call of
\* n tokens that was made d1 ticks from now and counted against it.
LaterOutcome(l, n, d1, d2) ==
    can_consume(consume(l, n, now + d1).limit, n, now + d1 + d2).ok

\* C30: hard_limit_status() is read-only: the call changes the current_calls
\* and the period_start of no limit, and the limits it leaves answer later
\* acquire / try_acquire calls as the limits it found would have.
C30_Step ==
    ReportsStatus =>
        /\ DOMAIN hard_limits' = DOMAIN hard_limits
        /\ \A k \in DOMAIN hard_limits :
              /\ hard_limits'[k].current_calls = hard_limits[k].current_calls
              /\ hard_limits'[k].period_start = hard_limits[k].period_start
              /\ \A n \in TokenCounts, d1 \in {0, 1},
                    d2 \in {duration(hard_limits[k].period) - 1} :
                    LaterOutcome(hard_limits'[k], n, d1, d2) =
                        LaterOutcome(hard_limits[k], n, d1, d2)

C30_StatusIsReadOnly == [][C30_Step]_vars

\* The wait for n tokens on the bucket as refilled at the current time: none
\* when it holds n, the deficit over refill_rate otherwise, in ticks.
EstimateNow(n) ==
    IF Refilled >= n THEN 0
    ELSE ((n - Refilled) * TicksPerSec + inner.refill_rate - 1)
            \div inner.refill_rate

\* C31: every operation that reads the token count refills first: the bucket
\* blocks of acquire and try_acquire take their tokens exactly when the
\* refilled bucket holds them, available_tokens() returns the refilled count,
\* and time_until_available(n) returns 0 whenever the refilled bucket holds n
\* tokens, its result being that of the refilled bucket alone, whatever hard
\* limits are registered.
C31_Step ==
    /\ \A p \in Procs :
          (AtBucket(p, "acq_bucket") \/ AtBucket(p, "try_bucket")) =>
              (task'[p].deducted = task[p].n) <=> (Refilled >= task[p].n)
    /\ (ReturnsAtOnce /\ last'.op = "available_tokens") => last'.ret = Refilled
    /\ (ReturnsAtOnce /\ last'.op = "time_until_available") =>
          /\ Refilled >= last'.ret.tokens_needed => last'.ret.wait = 0
          /\ last'.ret.wait = EstimateNow(last'.ret.tokens_needed)

C31_ReadsRefillFirst == [][C31_Step]_vars

\* C32: the window of a hard limit starts at its first counted call: a commit
\* that counts the first calls of a limit since it was created or last reset
\* leaves period_start at the time of that commit, whenever the limit was
\* added; a refused check and hard_limit_status leave period_start alone.
C32_Step ==
    \A k \in DOMAIN hard_limits \cap DOMAIN hard_limits' :
        /\ \A p \in Procs :
              (Commits(p) /\ last'.res = "ok" /\ Counted(hard_limits[k]) = 0) =>
                  hard_limits'[k].period_start = now
        /\ (RejectsCheck \/ ReportsStatus) =>
              hard_limits'[k].period_start = hard_limits[k].period_start

C32_WindowFromFirstCall == [][C32_Step]_vars

\* Whatever the other tasks are in the middle of, asleep or not, a task can
\* take its next step: the lock its next block needs is free.
C33_CanGoOn ==
    \A p \in Procs :
        /\ task[p].pc = "acq_bucket" => ENABLED acquire_bucket(p)
        /\ task[p].pc = "acq_commit" => ENABLED acquire_commit(p)
        /\ task[p].pc = "try_bucket" => ENABLED try_acquire_bucket(p)
        /\ task[p].pc = "try_commit" => ENABLED try_acquire_commit(p)
        /\ (task[p].pc = "acq_sleep" /\ now >= task[p].wake_at) =>
              ENABLED acquire_wake(p)
        /\ CanCall(p) =>
              /\ ENABLED available_tokens(p)
              /\ ENABLED hard_limit_status(p)
              /\ ENABLED acquire_check(p, 1)
              /\ ENABLED try_acquire_check(p, 1)
              /\ \A name \in Names :
                    /\ ENABLED remove_hard_limit(p, name)
                    /\ ENABLED add_hard_limit(p, name, 1, "Minute")
        /\ task[p].pc = "acq_sleep" =>
              /\ task[p].op = "acquire"
              /\ task[p].deducted = 0
        /\ task[p].pc \in {"idle", "acq_bucket", "acq_sleep", "acq_commit",
                           "try_bucket", "try_commit"}

C34_Step ==
    (budget' = budget - 1 /\ now' = now) =>
        /\ \A p \in Procs : task'[p].pc # "panicked"
        /\ inner'.tokens >= inner.tokens
        /\ inner'.tokens <= inner.capacity

C34_RefillNeverDecreases == [][C34_Step]_vars

\* an acquire call for more tokens than the bucket can ever hold, in its
\* wait loop
Oversized(p) ==
    /\ task[p].op = "acquire"
    /\ task[p].n > inner.capacity
    /\ task[p].pc \in {"acq_bucket", "acq_sleep"}

\* some hard limit refuses n calls now
LimitRefuses(n) ==
    \E k \in DOMAIN hard_limits : ~can_consume(hard_limits[k], n, now).ok

\* C35: acquire(n) with n above the capacity, no hard limit refusing it,
\* never succeeds and never deducts a token: the call stays in its wait
\* loop, each pass at the bucket finds too few tokens and sleeps again.
C35_Step ==
    \A p \in Procs :
        (Oversized(p) /\ ~LimitRefuses(task[p].n)) =>
            /\ Oversized(p)'
            /\ task'[p].deducted = 0
            /\ AtBucket(p, "acq_bucket") =>
                  /\ task'[p].pc = "acq_sleep"
                  /\ task'[p].wake_at > now
                  /\ inner'.tokens = Refilled
                  /\ granted' = granted

C35_OversizedNeverServed == [][C35_Step]_vars

\* acquire(2) on a bucket of capacity 1 is back at the bucket after two
\* sleeps, the bucket is full and a hard limit is registered that permits
\* the call.
C35_Witness ==
    /\ Oversized("t1")
    /\ inner.capacity = 1
    /\ inner.tokens = 1
    /\ task["t1"].pc = "acq_bucket"
    /\ task["t1"].sleeps = 2
    /\ hard_limits # <<>>
    /\ ~LimitRefuses(task["t1"].n)

\* whole tokens a refill at this instant credits
Credit == ((now - inner.last_refill) * inner.refill_rate) \div TicksPerSec

\* C36: a refill that credits no whole token leaves last_refill and the
\* token count as they are, so that time short of a token adds up over
\* calls; a refill that credits one token or more sets last_refill to now,
\* also when the bucket is full already.
C36_Step ==
    Refills =>
        /\ Credit = 0 =>
              /\ inner'.last_refill = inner.last_refill
              /\ inner'.tokens \in {inner.tokens} \cup
                                   {inner.tokens - task[p].n : p \in Procs}
              /\ (ReturnsAtOnce /\ last'.op = "available_tokens") => inner' = inner
        /\ Credit > 0 => inner'.last_refill = now

C36_RefillStampsOnCredit == [][C36_Step]_vars

\* available_tokens has been called half a second after the bucket was
\* drained at 0: no token credited, last_refill is still 0.
C36_Witness ==
    /\ last.op = "available_tokens"
    /\ last.ret = inner.tokens
    /\ inner.tokens < inner.capacity
    /\ inner.last_refill = 0
    /\ now = 1

====
